---- MODULE Spec2Model ----
(***************************************************************************)
(* Model of backend.py: a Flask proxy that forwards CRUD requests for the  *)
(* "users" resource to the Backendless REST API and normalises the answer. *)
(*                                                                         *)
(* One inbound request is followed from dispatch to its response.  Each    *)
(* view function is one action: it validates the request, issues the       *)
(* upstream call (recorded in calls), and produces the local response.     *)
(* The inbound request and the upstream's behaviour are the inputs.        *)
(***************************************************************************)
EXTENDS Integers, Sequences, FiniteSets, TLC

VARIABLES request, calls, upstream, response

vars == <<request, calls, upstream, response>>

(* ---------------------------- bounds ----------------------------------- *)

\* distinct non-empty strings "1" .. ToString(MaxStr) used as field values
MaxStr == 2
\* object ids "1" .. ToString(MaxId) used as path segments
MaxId == 2

(* ------------------------- JSON / Python values ------------------------ *)

\* A JSON value is a record [t, v]: t is the type, v the content.
JNull == [t |-> "null", v |-> 0]
JStr(s) == [t |-> "string", v |-> s]
JNum(n) == [t |-> "number", v |-> n]
JArr(seq) == [t |-> "array", v |-> seq]
JObj(f) == [t |-> "object", v |-> f]
EmptyFcn == [k \in {} |-> JNull]

Strings == {""} \cup {ToString(i) : i \in 1..MaxStr}
Atoms == {JNull, JNum(0)} \cup {JStr(s) : s \in Strings}

\* all JSON objects whose keys are a subset of keys, with atomic values
ObjectsOver(keys) ==
    UNION {{JObj(f) : f \in [ks -> Atoms]} : ks \in SUBSET keys}

\* Python truthiness (`not x` is ~Truthy(x))
Truthy(x) ==
    CASE x.t = "null" -> FALSE
      [] x.t = "string" -> x.v # ""
      [] x.t = "number" -> x.v # 0
      [] x.t = "array" -> Len(x.v) > 0
      [] x.t = "object" -> DOMAIN x.v # {}
      [] OTHER -> TRUE

\* dict.get(key, default); only defined on dicts
dict_get(data, key, default) ==
    IF key \in DOMAIN data.v THEN data.v[key] ELSE default

\* `key in data` : the exception it raises, or "None"
py_in_raises(key, data) ==
    IF data.t \in {"object", "array", "string"} THEN "None" ELSE "TypeError"

\* `key in data` on a container.  The strings of the model are either the
\* key itself or share no substring with it, so substring search on a str
\* is equality here.
py_in(key, data) ==
    CASE data.t = "object" -> key \in DOMAIN data.v
      [] data.t = "array" -> \E i \in 1..Len(data.v) : data.v[i] = JStr(key)
      [] data.t = "string" -> data.v = key
      [] OTHER -> FALSE

(* --------------------------- configuration ----------------------------- *)

BACKENDLESS_API_URL == "https://strongquestion-us.backendless.app/api/data/users1"

ObjectIds == {ToString(i) : i \in 1..MaxId}

\* f"{BACKENDLESS_API_URL}/{object_id}"
user_url(object_id) == BACKENDLESS_API_URL \o "/" \o object_id

(* ------------------------- inbound requests ---------------------------- *)

RequestKeys == {"nombre", "email", "telefono"}

\* JSON documents a client may send
RequestDocs ==
    Atoms \cup {JStr("nombre")}
          \cup {JArr(<<>>), JArr(<<JStr("nombre")>>), JArr(<<JStr("1")>>)}
          \cup ObjectsOver(RequestKeys)

\* is_json: the Content-Type announces JSON; parses: the body is a JSON text
Bodies ==
    {[is_json |-> j, parses |-> TRUE, doc |-> d] : j \in BOOLEAN, d \in RequestDocs}
      \cup {[is_json |-> j, parses |-> FALSE, doc |-> JNull] : j \in BOOLEAN}

NoBody == [is_json |-> FALSE, parses |-> FALSE, doc |-> JNull]

Req(m, id, b) == [method |-> m, object_id |-> id, body |-> b]

NoRequest == Req("NONE", "", NoBody)

(* ------------------------ upstream behaviour --------------------------- *)

UpstreamStatuses == {200, 201, 204, 304, 400, 404, 500}

UpstreamKeys == {"message", "objectId"}

UpstreamDocs ==
    Atoms \cup {JArr(<<>>), JArr(<<JStr("1")>>)} \cup ObjectsOver(UpstreamKeys)

\* raw body of the upstream answer: a JSON text (v the value it encodes)
\* or a text that is not JSON (v the text itself, possibly empty)
UpstreamTexts ==
    {[parses |-> TRUE, v |-> d] : d \in UpstreamDocs}
      \cup {[parses |-> FALSE, v |-> JStr(s)] : s \in Strings}

RequestExceptions == {"ConnectionError", "Timeout"}

\* what requests.get/post/put/delete does: raise a RequestException or
\* return a Response
Outcomes ==
    {[exc |-> e, status_code |-> 0, text |-> [parses |-> FALSE, v |-> JStr("")]] :
        e \in RequestExceptions}
      \cup {[exc |-> "None", status_code |-> s, text |-> t] :
              s \in UpstreamStatuses, t \in UpstreamTexts}

NoOutcome == [exc |-> "NotCalled", status_code |-> 0,
              text |-> [parses |-> FALSE, v |-> JStr("")]]

(* -------------------- results of a view function ----------------------- *)

\* return jsonify(body), status
Return(body, status) == [exc |-> "None", status |-> status, body |-> body]
\* an exception leaves the view function
Raise(e) == [exc |-> e, status |-> 0, body |-> JNull]

NoResponse == [status |-> 0, body |-> JNull]

HtmlPage(name) == [t |-> "html", v |-> name]

\* Flask turns the view's result into the HTTP response: an HTTPException
\* (BadRequest) is its own response, any other exception is a 500
flask_response(result) ==
    CASE result.exc = "None" -> [status |-> result.status, body |-> result.body]
      [] result.exc = "BadRequest" -> [status |-> 400, body |-> HtmlPage("Bad Request")]
      [] OTHER -> [status |-> 500, body |-> HtmlPage("Internal Server Error")]

(* ----------------------- backendless_response -------------------------- *)

\* requests.Response.ok: raise_for_status() does not raise
response_ok(resp) == ~(400 <= resp.status_code /\ resp.status_code < 600)

not_json_message_mut(resp) == resp.text.v

\* response.text or "Operation successful"
not_json_message(resp) ==
    IF Truthy(resp.text.v) THEN resp.text.v ELSE JStr("Operation successful")

error_body_mut(data) ==
    JObj("error" :> dict_get(data, "message", JStr("An unexpected Backendless error occurred."))
         @@ "details" :> JNull)

\* {"error": data.get("message", <default>), "details": data}
error_body(data) ==
    JObj("error" :> dict_get(data, "message", JStr("An unexpected Backendless error occurred."))
         @@ "details" :> data)

success_status_mut(resp) == 200

\* the status returned with the upstream's data
success_status(resp) == resp.status_code

backendless_response(resp) ==
    IF ~resp.text.parses
    THEN Return(JObj("message" :> not_json_message(resp)), resp.status_code)
    ELSE LET data == resp.text.v IN
         IF response_ok(resp)
         THEN Return(data, success_status(resp))
         ELSE IF data.t # "object"
              THEN Raise("AttributeError")
              ELSE Return(error_body(data), resp.status_code)

(* --------------------------- view functions ---------------------------- *)

Call(m, url, payload) == [method |-> m, url |-> url, json |-> payload]

NoPayload == [t |-> "none", v |-> 0]

\* result of a view: the upstream calls it issued and what it returned
View(cs, result) == [calls |-> cs, result |-> result]

connectivity_error_mut(outcome) ==
    Return(JObj("error" :> JStr("Failed to connect to Backendless API")
                @@ "details" :> JStr(outcome.exc)), 500)

\* except requests.exceptions.RequestException as e: ... 503
connectivity_error(outcome) ==
    Return(JObj("error" :> JStr("Failed to connect to Backendless API")
                @@ "details" :> JStr(outcome.exc)), 503)

get_all_users(req, outcome) ==
    View(<<Call("GET", BACKENDLESS_API_URL, NoPayload)>>,
         IF outcome.exc # "None"
         THEN connectivity_error(outcome)
         ELSE backendless_response(outcome))

create_user(req, outcome) ==
    IF ~req.body.is_json
    THEN View(<<>>, Return(JObj("error" :> JStr("Missing JSON in request")), 400))
    ELSE IF ~req.body.parses
    THEN View(<<>>, Raise("BadRequest"))
    ELSE LET data == req.body.doc IN
         IF data.t # "object"
         THEN View(<<>>, Raise("AttributeError"))
         ELSE LET nombre == dict_get(data, "nombre", JNull)
                  email == dict_get(data, "email", JNull)
              IN IF ~Truthy(nombre) \/ ~Truthy(email)
                 THEN View(<<>>, Return(JObj("error" :>
                          JStr("Missing required fields: 'nombre' and 'email'")), 400))
                 ELSE View(<<Call("POST", BACKENDLESS_API_URL,
                                  JObj("nombre" :> nombre @@ "email" :> email))>>,
                           IF outcome.exc # "None"
                           THEN connectivity_error(outcome)
                           ELSE backendless_response(outcome))

get_user(req, outcome) ==
    View(<<Call("GET", user_url(req.object_id), NoPayload)>>,
         IF outcome.exc # "None"
         THEN connectivity_error(outcome)
         ELSE backendless_response(outcome))

update_payload_mut(data) == data

\* payload = {}; copy 'nombre' and 'email' when present (data is a dict)
update_payload(data) ==
    JObj([k \in {"nombre", "email"} \cap DOMAIN data.v |-> data.v[k]])

update_user(req, outcome) ==
    IF ~req.body.is_json
    THEN View(<<>>, Return(JObj("error" :> JStr("Missing JSON in request")), 400))
    ELSE IF ~req.body.parses
    THEN View(<<>>, Raise("BadRequest"))
    ELSE LET data == req.body.doc IN
         IF py_in_raises("nombre", data) # "None"
         THEN View(<<>>, Raise(py_in_raises("nombre", data)))
         ELSE IF data.t # "object" /\ (py_in("nombre", data) \/ py_in("email", data))
         THEN View(<<>>, Raise("TypeError"))    \* data['nombre'] on a list or str
         ELSE LET payload == IF data.t = "object" THEN update_payload(data)
                                                  ELSE JObj(EmptyFcn)
              IN IF ~Truthy(payload)
                 THEN View(<<>>, Return(JObj("error" :>
                          JStr("No valid fields provided for update ('nombre' or 'email')")), 400))
                 ELSE View(<<Call("PUT", user_url(req.object_id), payload)>>,
                           IF outcome.exc # "None"
                           THEN connectivity_error(outcome)
                           ELSE backendless_response(outcome))

delete_success_mut(resp) == resp.status_code = 200

\* response.status_code in (200, 204)
delete_success(resp) == resp.status_code \in {200, 204}

\* f"User {object_id} successfully deleted"
delete_message(object_id) == JStr("User " \o object_id \o " successfully deleted")

delete_user(req, outcome) ==
    View(<<Call("DELETE", user_url(req.object_id), NoPayload)>>,
         IF outcome.exc # "None"
         THEN connectivity_error(outcome)
         ELSE IF delete_success(outcome)
              THEN Return(JObj("message" :> delete_message(req.object_id)), 200)
              ELSE backendless_response(outcome))

(* ------------------------------ actions -------------------------------- *)

Init ==
    /\ request = NoRequest
    /\ calls = <<>>
    /\ upstream = NoOutcome
    /\ response = NoResponse

\* no request has been dispatched yet
Idle == request = NoRequest

\* the request req is dispatched to a view that yields h
Handle(req, outcome, h) ==
    /\ request' = req
    /\ calls' = h.calls
    /\ upstream' = IF h.calls = <<>> THEN NoOutcome ELSE outcome
    /\ response' = flask_response(h.result)

GetAllUsers ==
    /\ Idle
    /\ \E outcome \in Outcomes :
           LET req == Req("GET", "", NoBody)
           IN Handle(req, outcome, get_all_users(req, outcome))

CreateUser ==
    /\ Idle
    /\ \E b \in Bodies, outcome \in Outcomes :
           LET req == Req("POST", "", b)
           IN Handle(req, outcome, create_user(req, outcome))

GetUser ==
    /\ Idle
    /\ \E id \in ObjectIds, outcome \in Outcomes :
           LET req == Req("GET", id, NoBody)
           IN Handle(req, outcome, get_user(req, outcome))

UpdateUser ==
    /\ Idle
    /\ \E id \in ObjectIds, b \in Bodies, outcome \in Outcomes :
           LET req == Req("PUT", id, b)
           IN Handle(req, outcome, update_user(req, outcome))

DeleteUser ==
    /\ Idle
    /\ \E id \in ObjectIds, outcome \in Outcomes :
           LET req == Req("DELETE", id, NoBody)
           IN Handle(req, outcome, delete_user(req, outcome))

Next ==
    \/ GetAllUsers
    \/ CreateUser
    \/ GetUser
    \/ UpdateUser
    \/ DeleteUser

Spec == Init /\ [][Next]_vars

(* ---------------------------- vocabulary ------------------------------- *)

Handled == request # NoRequest
Forwarded == calls # <<>>
IsCreate == Handled /\ request.method = "POST"
IsUpdate == Handled /\ request.method = "PUT"
IsDelete == Handled /\ request.method = "DELETE"
IsGetById == Handled /\ request.method = "GET" /\ request.object_id # ""
UpstreamAnswered == Forwarded /\ upstream.exc = "None"
UpstreamFailed == Forwarded /\ upstream.exc \in RequestExceptions
Upstream2xx == 200 <= upstream.status_code /\ upstream.status_code < 300
DefaultError == JStr("An unexpected Backendless error occurred.")

\* the key is absent from the request body (which may not be an object)
FieldMissing(k) ==
    request.body.doc.t # "object" \/ k \notin DOMAIN request.body.doc.v
FieldEmpty(k) ==
    ~FieldMissing(k) /\ request.body.doc.v[k] = JStr("")
BodyNotJson == ~request.body.is_json \/ ~request.body.parses

\* the request was answered 400 by the proxy itself, before any forwarding
Rejected400 == Handled /\ ~Forwarded /\ response.status = 400
ConnectFailedBody(b) ==
    /\ b.t = "object"
    /\ "error" \in DOMAIN b.v
    /\ b.v["error"] = JStr("Failed to connect to Backendless API")

(* ------------------------------- claims -------------------------------- *)

\* C1: every POST /users whose body is not JSON, or whose `nombre` or
\* `email` is missing or empty, is answered 400 and issues no upstream call.
C1_CreateInvalidInput400 ==
    (IsCreate /\ (\/ BodyNotJson
                  \/ FieldMissing("nombre") \/ FieldEmpty("nombre")
                  \/ FieldMissing("email") \/ FieldEmpty("email")))
        => (response.status = 400 /\ calls = <<>>)

\* C2: every PUT /users/{id} whose body has neither the key `nombre` nor the
\* key `email`, or is not JSON, is answered 400 and issues no upstream call.
C2_UpdateNoFields400 ==
    (IsUpdate /\ (\/ BodyNotJson
                  \/ (FieldMissing("nombre") /\ FieldMissing("email"))))
        => (response.status = 400 /\ calls = <<>>)

\* C3: in each of the five operations, when the forwarded upstream call
\* raises a connectivity error the local response is 503 and its `error`
\* field is "Failed to connect to Backendless API".
C3_ConnectivityError503 ==
    UpstreamFailed => (response.status = 503 /\ ConnectFailedBody(response.body))

C3_Witness ==
    /\ IsDelete
    /\ UpstreamFailed
    /\ upstream.exc = "Timeout"
    /\ response.status = 503

\* C4: a DELETE answered 200 or 204 upstream, whatever the upstream body,
\* yields 200 {message: "User {id} successfully deleted"} with the id of the
\* request path; any other upstream status yields what the shared response
\* normalization produces.
C4_DeleteResult ==
    (IsDelete /\ UpstreamAnswered) =>
        IF upstream.status_code \in {200, 204}
        THEN response = [status |-> 200,
                         body |-> JObj("message" :>
                            JStr("User " \o request.object_id \o " successfully deleted"))]
        ELSE response = flask_response(backendless_response(upstream))

C4_Witness ==
    /\ IsDelete
    /\ UpstreamAnswered
    /\ request.object_id = "2"
    /\ upstream.status_code = 204
    /\ upstream.text.parses
    /\ response.body = JObj("message" :> JStr("User 2 successfully deleted"))

\* C5 (as stated): a GET /users/{id} answered 404 upstream with an error
\* body yields 404 and the upstream's error body unchanged.
C5_Original ==
    (IsGetById /\ UpstreamAnswered /\ upstream.status_code = 404
       /\ upstream.text.parses /\ upstream.text.v.t = "object")
        => (response.status = 404 /\ response.body = upstream.text.v)

\* C5 (amended): a GET /users/{id} answered 404 upstream with a JSON object
\* as error body yields 404 and the body {error, details}: error is the
\* upstream body's `message` field (a default string when absent) and
\* details is the upstream's error body unchanged.
C5_Get404Wrapped ==
    (IsGetById /\ UpstreamAnswered /\ upstream.status_code = 404
       /\ upstream.text.parses /\ upstream.text.v.t = "object")
        => /\ response.status = 404
           /\ response.body.t = "object"
           /\ DOMAIN response.body.v = {"error", "details"}
           /\ response.body.v["details"] = upstream.text.v
           /\ response.body.v["error"] =
                 IF "message" \in DOMAIN upstream.text.v.v
                 THEN upstream.text.v.v["message"]
                 ELSE DefaultError

C5_Witness ==
    /\ IsGetById
    /\ UpstreamAnswered
    /\ upstream.status_code = 404
    /\ upstream.text.parses
    /\ upstream.text.v = JObj("message" :> JStr("1"))
    /\ response.status = 404
    /\ response.body.v["error"] = JStr("1")

\* C6: a forwarded list, create, get-by-id or update answered upstream with
\* a 2xx status and a JSON body yields the upstream's exact status and a
\* body identical to the upstream's.
C6_SuccessPassThrough ==
    (Handled /\ request.method \in {"GET", "POST", "PUT"}
       /\ UpstreamAnswered /\ Upstream2xx /\ upstream.text.parses)
        => response = [status |-> upstream.status_code, body |-> upstream.text.v]

C6_Witness ==
    /\ IsCreate
    /\ UpstreamAnswered
    /\ upstream.status_code = 201
    /\ upstream.text.parses
    /\ upstream.text.v.t = "object"
    /\ "objectId" \in DOMAIN upstream.text.v.v
    /\ response.status = 201
    /\ response.body.v["objectId"] = JStr("2")

\* C7: a forwarded request answered upstream with a non-2xx status and a
\* JSON body of any shape yields the upstream's status and the body
\* {error: the upstream `message` field or the default, details: the
\* upstream body}; the handler never fails to produce it.
C7_ErrorNormalized ==
    (UpstreamAnswered /\ ~Upstream2xx /\ upstream.text.parses)
        => /\ response.status = upstream.status_code
           /\ response.body =
                JObj("error" :>
                        (IF upstream.text.v.t = "object"
                            /\ "message" \in DOMAIN upstream.text.v.v
                         THEN upstream.text.v.v["message"]
                         ELSE DefaultError)
                     @@ "details" :> upstream.text.v)

\* C8: a forwarded request (other than a delete answered 200/204) whose
\* upstream body is not JSON yields {message: the raw text}, or {message:
\* "Operation successful"} when the text is empty, with the upstream's
\* status, whether that status is 2xx or an error status.
C8_NotJsonFallback ==
    (UpstreamAnswered /\ ~upstream.text.parses
       /\ ~(IsDelete /\ upstream.status_code \in {200, 204}))
        => /\ response.status = upstream.status_code
           /\ response.body =
                JObj("message" :> (IF upstream.text.v = JStr("")
                                   THEN JStr("Operation successful")
                                   ELSE upstream.text.v))

C8_Witness ==
    /\ UpstreamAnswered
    /\ ~upstream.text.parses
    /\ upstream.text.v = JStr("")
    /\ upstream.status_code = 500
    /\ response = [status |-> 500,
                   body |-> JObj("message" :> JStr("Operation successful"))]

\* C9: every inbound request that is not rejected with a 400 input error
\* issues exactly one upstream call before it is answered, none issues more
\* than one, and a network failure is answered 503 without a retry.
C9_ExactlyOneCall ==
    Handled => /\ Len(calls) <= 1
               /\ ~Rejected400 => Len(calls) = 1
               /\ UpstreamFailed => (response.status = 503 /\ Len(calls) = 1)

\* C10: the payload of a forwarded PUT holds exactly those of the keys
\* `nombre` and `email` that the request body has, each with the request's
\* value (empty and null values included), and no other key.
C10_UpdatePayload ==
    (IsUpdate /\ Forwarded) =>
        /\ request.body.doc.t = "object"
        /\ calls[1].json.t = "object"
        /\ DOMAIN calls[1].json.v =
              {"nombre", "email"} \cap DOMAIN request.body.doc.v
        /\ \A k \in DOMAIN calls[1].json.v :
              calls[1].json.v[k] = request.body.doc.v[k]

C10_Witness ==
    /\ IsUpdate
    /\ Forwarded
    /\ request.body.doc = JObj("nombre" :> JStr("") @@ "telefono" :> JStr("1"))
    /\ calls[1].json = JObj("nombre" :> JStr(""))
    /\ calls[1].url = "https://strongquestion-us.backendless.app/api/data/users1/1"

====
